---- MODULE Spec2Model ----
(***************************************************************************)
(* Model of backend/app.py: the /api/analyze/uhi handler (analyze_uhi)     *)
(* and its helper functions.                                               *)
(*                                                                         *)
(* Units.  A temperature (lst) is held as an integer number of hundredths  *)
(* (28.15 is 2815), an NDVI as an integer number of thousandths (0.1 is    *)
(* 100), a 1-decimal statistic as an integer number of tenths.             *)
(*                                                                         *)
(* Floating point.  mean_temp, the per-point differences and the rounded   *)
(* statistics are IEEE-754 doubles in the program.  Wherever a rounding    *)
(* direction depends on the double (decimal ties), the model carries the   *)
(* double exactly: a double x is a record [num, den, r] with               *)
(*        x * 100 * den * 2^48  =  num * 2^48 + r                          *)
(* i.e. x is the rational num/(100*den) plus an error of r units of        *)
(* 2^-48/(100*den).  All arithmetic on it is done modulo small numbers, so *)
(* it stays inside machine integers.  sum() is plain left-to-right double  *)
(* addition.                                                               *)
(*                                                                         *)
(* Left out: the lat/lon fields (drawn, stored, never read), the log       *)
(* lines, and the aggregates std_lst, avg_ndvi and the "uhi" block of the  *)
(* statistics, which nothing below reads.                                  *)
(***************************************************************************)
EXTENDS Integers, Sequences, FiniteSets, TLC

VARIABLES
    args,        \* request.args: the query parameters of the request
    pc,          \* where the handler stands
    points, days, results, temp_list, ndvi_list, uhi_list, mean_temp,
    statistics,  \* the statistics dictionary, once its first entries exist
    date_range,  \* the date_range dictionary as far as it is evaluated
    response,    \* what the handler returned
    clock,       \* the day datetime.now() falls on
    midnights    \* how often the clock passed midnight during the request

vars == <<args, pc, points, days, results, temp_list, ndvi_list, uhi_list,
          mean_temp, statistics, date_range, response, clock, midnights>>

(***************************************************************************)
(* Bounds of the model.                                                    *)
(***************************************************************************)
\* largest points for which every draw ranges over the full sample sets
MaxRichPoints == 3
\* largest points accepted at all; above MaxRichPoints the draws are narrowed
MaxPoints == 6
\* how many times midnight may pass while one request is handled
MaxMidnights == 1

\* draws of round(random.uniform(28, 45), 2), in hundredths
LstSamples == {3399, 3400, 3999, 4000, 4500}
LstSamplesLong == {2815, 4500}
\* draws of random.uniform(0.1, 0.8), in thousandths
USamples == {667, 800}
USamplesLong == {100}
\* the day the request arrives: days since 2025-01-01 (423 is 2026-02-28)
ClockStarts == {423}

DefaultPoints == 100
DefaultDays == 30

\* a query parameter as the client sent it
Absent == [kind |-> "absent"]
NotANumber == [kind |-> "text"]
IntArg(n) == [kind |-> "int", val |-> n]
PointsArgs == {IntArg(n) : n \in -1..MaxPoints} \cup {NotANumber}
DaysArgs == {Absent, IntArg(-1), IntArg(0), NotANumber}

(***************************************************************************)
(* IEEE-754 double arithmetic on values near decimal fractions.            *)
(***************************************************************************)
\* 2^48 modulo m, for m < 46341
Pow48Mod(m) ==
    LET p12 == 4096 % m
        p24 == (p12 * p12) % m
    IN  (p24 * p24) % m

\* x >= b for the double x = [num, den, r] and an integer b
DoubleGe(x, b) ==
    \/ x.num > b * 100 * x.den
    \/ x.num = b * 100 * x.den /\ x.r >= 0

\* spacing of the doubles around x (16 <= x < 512), in units of 2^-48
Ulp(x) ==
    IF DoubleGe(x, 256) THEN 16
    ELSE IF DoubleGe(x, 128) THEN 8
    ELSE IF DoubleGe(x, 64) THEN 4
    ELSE IF DoubleGe(x, 32) THEN 2
    ELSE 1

\* round-to-nearest-even of the exact value x onto the doubles
RoundToDouble(x) ==
    LET G == 100 * x.den * Ulp(x)
        W == ((x.num % (2 * G)) * Pow48Mod(2 * G) + x.r) % (2 * G)
        low == W % G
        down == [x EXCEPT !.r = x.r - low]
        up == [x EXCEPT !.r = x.r + G - low]
    IN  IF 2 * low < G THEN down
        ELSE IF 2 * low > G THEN up
        ELSE IF W < G THEN down ELSE up

\* the double a two-decimal value h/100 is stored as
DoubleOf(h) == RoundToDouble([num |-> h, den |-> 1, r |-> 0])

\* a + b on doubles with den = 1
DoubleAdd(a, b) ==
    RoundToDouble([num |-> a.num + b.num, den |-> 1, r |-> a.r + b.r])

\* sum(temp_list) for a non-empty list: 0 + t1 is exact, then one rounded
\* addition per element
RECURSIVE FloatSum(_)
FloatSum(hs) ==
    IF Len(hs) = 1 THEN DoubleOf(hs[1])
    ELSE DoubleAdd(FloatSum(SubSeq(hs, 1, Len(hs) - 1)), DoubleOf(hs[Len(hs)]))

\* sum(temp_list) / len(temp_list)
FloatMean(hs) ==
    LET s == FloatSum(hs)
    IN  RoundToDouble([num |-> s.num, den |-> Len(hs), r |-> s.r])

\* round(x, d) of a double: the result in multiples of `unit` hundredths
\* (unit 1 for d = 2, unit 10 for d = 1).  round() rounds the exact binary
\* value correctly, so a decimal tie is decided by the sign of the error r.
PyRound(x, unit) ==
    LET d == unit * x.den
        fl == x.num \div d
        rem == x.num - fl * d
    IN  IF 2 * rem < d THEN fl
        ELSE IF 2 * rem > d THEN fl + 1
        ELSE IF x.r > 0 THEN fl + 1
        ELSE IF x.r < 0 THEN fl
        ELSE IF fl % 2 = 0 THEN fl ELSE fl + 1

\* point["lst"] - mean_temp: both operands lie within a factor two of each
\* other, so the subtraction is exact
LstMinusMean(h, m) ==
    LET t == DoubleOf(h)
    IN  [num |-> h * m.den - m.num, den |-> m.den, r |-> t.r * m.den - m.r]

SeqMin(s) == CHOOSE x \in {s[i] : i \in 1..Len(s)} :
                 \A j \in 1..Len(s) : x <= s[j]
SeqMax(s) == CHOOSE x \in {s[i] : i \in 1..Len(s)} :
                 \A j \in 1..Len(s) : x >= s[j]


(***************************************************************************)
(* Helper functions of app.py.                                             *)
(***************************************************************************)
\* variant of classify_vegetation with the first breakpoint at 0.1
classify_vegetation_breakpoint(ndvi) ==
    IF ndvi < 100 THEN "Water/Built-up"
    ELSE IF ndvi < 400 THEN "Barren/Sparse"
    ELSE IF ndvi < 600 THEN "Moderate Vegetation"
    ELSE "Dense Vegetation"

classify_vegetation(ndvi) ==
    IF ndvi < 200 THEN "Water/Built-up"
    ELSE IF ndvi < 400 THEN "Barren/Sparse"
    ELSE IF ndvi < 600 THEN "Moderate Vegetation"
    ELSE "Dense Vegetation"

get_zone_color(zone) ==
    IF zone = 0 THEN "#ef4444"
    ELSE IF zone = 1 THEN "#f97316"
    ELSE IF zone = 2 THEN "#22c55e"
    ELSE "#9ca3af"

get_severity(zone) ==
    IF zone = 0 THEN "High"
    ELSE IF zone = 1 THEN "Medium"
    ELSE IF zone = 2 THEN "Low"
    ELSE "Unknown"

\* variant of get_recommendation with the two NDVI thresholds exchanged
get_recommendation_swapped(zone, ndvi) ==
    IF zone = 0
    THEN IF ndvi < 400
         THEN "Plant more trees and create green spaces urgently"
         ELSE "Improve ventilation and add water features"
    ELSE IF zone = 1
    THEN IF ndvi < 300
         THEN "Increase vegetation cover and add shade structures"
         ELSE "Maintain current green cover and monitor temperature"
    ELSE "Maintain existing vegetation and urban planning"

get_recommendation(zone, ndvi) ==
    IF zone = 0
    THEN IF ndvi < 300
         THEN "Plant more trees and create green spaces urgently"
         ELSE "Improve ventilation and add water features"
    ELSE IF zone = 1
    THEN IF ndvi < 400
         THEN "Increase vegetation cover and add shade structures"
         ELSE "Maintain current green cover and monitor temperature"
    ELSE "Maintain existing vegetation and urban planning"

\* variant of the zone classification with strict comparisons
ZoneOfStrict(lst) ==
    IF lst > 4000 THEN 0
    ELSE IF lst > 3400 THEN 1
    ELSE 2

\* the zone of a temperature (hundredths)
ZoneOf(lst) ==
    IF lst >= 4000 THEN 0
    ELSE IF lst >= 3400 THEN 1
    ELSE 2

\* the values round(u * (1 - (lst - 28) / 20), 3) can take, in thousandths,
\* for a draw at u (thousandths): u is a continuous random double, so at an
\* exact decimal tie draws on either side of it occur
NdviRounded(u, lst) ==
    LET n == u * (4800 - lst)
        fl == n \div 2000
        rem == n - fl * 2000
    IN  IF rem < 1000 THEN {fl}
        ELSE IF rem > 1000 THEN {fl + 1}
        ELSE {fl, fl + 1}

\* max(0.05, min(0.85, ndvi))
ClampNdvi(ndvi) ==
    LET lo == IF ndvi < 850 THEN ndvi ELSE 850
    IN  IF lo > 50 THEN lo ELSE 50

\* the dictionary appended to results for one generated point
Observation(lst, ndvi) ==
    LET zone == ZoneOf(lst)
    IN  [lst |-> lst,
         ndvi |-> ndvi,
         zone |-> zone,
         vegetation |-> classify_vegetation(ndvi),
         color |-> get_zone_color(zone),
         severity |-> get_severity(zone),
         recommendation |-> get_recommendation(zone, ndvi),
         uhi_intensity |-> 0]

\* variant of the intensity that cuts the difference down to two decimals
\* (floor) instead of rounding it
UhiIntensityFloor(lst, mean) ==
    LET x == LstMinusMean(lst, mean)
    IN  x.num \div x.den

\* round(point["lst"] - mean_temp, 2), in hundredths
UhiIntensity(lst, mean) == PyRound(LstMinusMean(lst, mean), 1)

\* variant of the zone counts whose low-heat filter still reads zone == 1
ZoneCountCopied(rs, z) ==
    Cardinality({i \in 1..Len(rs) : rs[i].zone = (IF z = 2 THEN 1 ELSE z)})

\* len([p for p in results if p["zone"] == z])
ZoneCount(rs, z) == Cardinality({i \in 1..Len(rs) : rs[i].zone = z})

(***************************************************************************)
(* Calendar: datetime arithmetic and strftime("%Y-%m-%d").  A day is       *)
(* counted from 2025-01-01 (day 0); a formatted date is the record of the  *)
(* three zero-padded fields of the string.                                 *)
(***************************************************************************)
IsLeap(y) == (y % 4 = 0 /\ y % 100 # 0) \/ y % 400 = 0

DaysInYear(y) == IF IsLeap(y) THEN 366 ELSE 365

DaysInMonth(y, m) ==
    IF m = 2 THEN (IF IsLeap(y) THEN 29 ELSE 28)
    ELSE IF m \in {4, 6, 9, 11} THEN 30
    ELSE 31

RECURSIVE SplitYear(_, _)
SplitYear(y, n) ==
    IF n < 0 THEN SplitYear(y - 1, n + DaysInYear(y - 1))
    ELSE IF n >= DaysInYear(y) THEN SplitYear(y + 1, n - DaysInYear(y))
    ELSE <<y, n>>

RECURSIVE SplitMonth(_, _, _)
SplitMonth(y, m, n) ==
    IF n >= DaysInMonth(y, m) THEN SplitMonth(y, m + 1, n - DaysInMonth(y, m))
    ELSE <<m, n + 1>>

\* strftime("%Y-%m-%d") of the day numbered ord
FormatDate(ord) ==
    LET yn == SplitYear(2025, ord)
        md == SplitMonth(yn[1], 1, yn[2])
    IN  [year |-> yn[1], month |-> md[1], day |-> md[2]]

\* (datetime.now() - timedelta(days=d)).strftime("%Y-%m-%d")
DateDaysAgo(now, d) == FormatDate(now - d)

(***************************************************************************)
(* The request handler.                                                    *)
(***************************************************************************)
\* int(request.args.get(name, default)): the integer, or "ValueError"
ParseInt(arg, default) ==
    IF arg.kind = "absent" THEN [ok |-> TRUE, val |-> default]
    ELSE IF arg.kind = "int" THEN [ok |-> TRUE, val |-> arg.val]
    ELSE [ok |-> FALSE, val |-> 0]

NoResponse == [status |-> 0, success |-> FALSE]

\* the except branch: jsonify({"success": False, "error": str(e)}), 500
Failure(msg) == [status |-> 500, success |-> FALSE, error |-> msg]

\* jsonify({"success": True, "data": results, "statistics": statistics})
Success(rs, st) == [status |-> 200, success |-> TRUE, data |-> rs, statistics |-> st]

NoMean == [num |-> 0, den |-> 1, r |-> 0]
NoStatistics == [total_points |-> -1]
NoDate == [year |-> 0, month |-> 0, day |-> 0]
NoDateRange == [start_date |-> NoDate, end_date |-> NoDate, image_date |-> NoDate]

Init ==
    /\ args = [points |-> Absent, days |-> Absent]
    /\ pc = "idle"
    /\ points = 0
    /\ days = 0
    /\ results = <<>>
    /\ temp_list = <<>>
    /\ ndvi_list = <<>>
    /\ uhi_list = <<>>
    /\ mean_temp = NoMean
    /\ statistics = NoStatistics
    /\ date_range = NoDateRange
    /\ response = NoResponse
    /\ clock \in ClockStarts
    /\ midnights = 0

\* the sample sets the random draws of a request of p points range over
LstDraws(p) == IF p <= MaxRichPoints THEN LstSamples ELSE LstSamplesLong
UDraws(p) == IF p <= MaxRichPoints THEN USamples ELSE USamplesLong

\* lines 89-101: the two parameters are parsed and the lists created
Request(pArg, dArg) ==
    /\ pc = "idle"
    /\ args' = [points |-> pArg, days |-> dArg]
    /\ LET p == ParseInt(pArg, DefaultPoints)
           d == ParseInt(dArg, DefaultDays)
       IN  IF ~p.ok \/ ~d.ok
           THEN /\ pc' = "done"
                /\ response' = Failure("invalid literal for int() with base 10")
                /\ UNCHANGED <<points, days>>
           ELSE /\ p.val <= MaxPoints
                /\ pc' = "generate"
                /\ points' = p.val
                /\ days' = d.val
                /\ UNCHANGED response
    /\ UNCHANGED <<results, temp_list, ndvi_list, uhi_list, mean_temp,
                   statistics, date_range, clock, midnights>>

\* lines 104-145: one iteration of the generation loop
Generate ==
    /\ pc = "generate"
    /\ Len(results) < points
    /\ \E lst \in LstDraws(points), u \in UDraws(points) :
         \E raw \in NdviRounded(u, lst) :
           LET ndvi == ClampNdvi(raw)
           IN  /\ temp_list' = Append(temp_list, lst)
               /\ ndvi_list' = Append(ndvi_list, ndvi)
               /\ results' = Append(results, Observation(lst, ndvi))
    /\ UNCHANGED <<args, pc, points, days, uhi_list, mean_temp, statistics,
                   date_range, response, clock, midnights>>

\* line 148, once range(points) is exhausted: the mean, or ZeroDivisionError
\* caught at line 195
ComputeMean ==
    /\ pc = "generate"
    /\ Len(results) >= points
    /\ IF Len(temp_list) = 0
       THEN /\ pc' = "done"
            /\ response' = Failure("division by zero")
            /\ UNCHANGED mean_temp
       ELSE /\ pc' = "intensity"
            /\ mean_temp' = FloatMean(temp_list)
            /\ UNCHANGED response
    /\ UNCHANGED <<args, points, days, results, temp_list, ndvi_list, uhi_list,
                   statistics, date_range, clock, midnights>>

\* lines 151-154: the second pass over results
UpdateIntensity ==
    /\ pc = "intensity"
    /\ results' = [i \in 1..Len(results) |->
                     [results[i] EXCEPT
                        !.uhi_intensity = UhiIntensity(results[i].lst, mean_temp)]]
    /\ uhi_list' = [i \in 1..Len(results) |->
                      UhiIntensity(results[i].lst, mean_temp)]
    /\ pc' = "statistics"
    /\ UNCHANGED <<args, points, days, temp_list, ndvi_list, mean_temp,
                   statistics, date_range, response, clock, midnights>>

\* lines 157-177: the statistics entries evaluated before date_range
BuildStatistics ==
    /\ pc = "statistics"
    /\ statistics' =
         [total_points |-> points,
          high_heat_zones |-> ZoneCount(results, 0),
          medium_heat_zones |-> ZoneCount(results, 1),
          low_heat_zones |-> ZoneCount(results, 2),
          temperature |->
            [min_lst |-> PyRound(DoubleOf(SeqMin(temp_list)), 10),
             max_lst |-> PyRound(DoubleOf(SeqMax(temp_list)), 10),
             avg_lst |-> PyRound(mean_temp, 10)],
          vegetation |->
            [min_ndvi |-> SeqMin(ndvi_list),
             max_ndvi |-> SeqMax(ndvi_list)]]
    /\ pc' = "start_date"
    /\ UNCHANGED <<args, points, days, results, temp_list, ndvi_list, uhi_list,
                   mean_temp, date_range, response, clock, midnights>>

\* line 179: first reading of the clock
ReadStartDate ==
    /\ pc = "start_date"
    /\ date_range' = [date_range EXCEPT !.start_date = DateDaysAgo(clock, days)]
    /\ pc' = "end_date"
    /\ UNCHANGED <<args, points, days, results, temp_list, ndvi_list, uhi_list,
                   mean_temp, statistics, response, clock, midnights>>

\* line 180: second reading of the clock
ReadEndDate ==
    /\ pc = "end_date"
    /\ date_range' = [date_range EXCEPT !.end_date = FormatDate(clock)]
    /\ pc' = "image_date"
    /\ UNCHANGED <<args, points, days, results, temp_list, ndvi_list, uhi_list,
                   mean_temp, statistics, response, clock, midnights>>

\* the statistics dictionary with its last entry
WithDateRange(st, dr) ==
    [x \in DOMAIN st \cup {"date_range"} |->
       IF x = "date_range" THEN dr ELSE st[x]]

\* lines 181-193: third reading of the clock, then the response
ReadImageDateAndRespond ==
    /\ pc = "image_date"
    /\ date_range' = [date_range EXCEPT !.image_date = FormatDate(clock)]
    /\ statistics' = WithDateRange(statistics, date_range')
    /\ response' = Success(results, statistics')
    /\ pc' = "done"
    /\ UNCHANGED <<args, points, days, results, temp_list, ndvi_list, uhi_list,
                   mean_temp, clock, midnights>>

\* the wall clock passes midnight while the request is being handled
Midnight ==
    /\ pc \notin {"idle", "done"}
    /\ midnights < MaxMidnights
    /\ clock' = clock + 1
    /\ midnights' = midnights + 1
    /\ UNCHANGED <<args, pc, points, days, results, temp_list, ndvi_list,
                   uhi_list, mean_temp, statistics, date_range, response>>

Next ==
    \/ \E pArg \in PointsArgs, dArg \in DaysArgs : Request(pArg, dArg)
    \/ Generate
    \/ ComputeMean
    \/ UpdateIntensity
    \/ BuildStatistics
    \/ ReadStartDate
    \/ ReadEndDate
    \/ ReadImageDateAndRespond
    \/ Midnight

Spec == Init /\ [][Next]_vars

(***************************************************************************)
(* Properties.                                                             *)
(***************************************************************************)
Abs(n) == IF n < 0 THEN -n ELSE n

RECURSIVE SeqSum(_)
SeqSum(s) == IF s = <<>> THEN 0 ELSE s[1] + SeqSum(Tail(s))

\* the request carried this parameter as an integer literal, or not at all
Parses(arg) == arg.kind \in {"int", "absent"}
ArgValue(arg, default) == IF arg.kind = "int" THEN arg.val ELSE default

\* the handler has returned
Returned == pc = "done"
\* the handler has returned the success=true body
Succeeded == pc = "done" /\ response.success

\* the day number of a formatted date (inverse of FormatDate)
RECURSIVE DaysBeforeYear(_)
DaysBeforeYear(y) ==
    IF y = 2025 THEN 0
    ELSE IF y > 2025 THEN DaysBeforeYear(y - 1) + DaysInYear(y - 1)
    ELSE DaysBeforeYear(y + 1) - DaysInYear(y)

RECURSIVE DaysBeforeMonth(_, _)
DaysBeforeMonth(y, m) ==
    IF m = 1 THEN 0 ELSE DaysBeforeMonth(y, m - 1) + DaysInMonth(y, m - 1)

DateOrdinal(d) == DaysBeforeYear(d.year) + DaysBeforeMonth(d.year, d.month) + d.day - 1

\* C1: every request with integer points >= 0 and days >= 0 returns a result
\* whose data holds exactly points observations and whose
\* statistics.total_points is points.
C1_ExactlyPointsObservations ==
    (/\ Returned
     /\ args.points.kind = "int" /\ args.points.val >= 0
     /\ Parses(args.days) /\ ArgValue(args.days, DefaultDays) >= 0)
    => /\ response.success
       /\ Len(response.data) = args.points.val
       /\ response.statistics.total_points = args.points.val

\* C2: a request with points = 0 returns success=true with an empty data
\* sequence and three zone counts of 0; it does not end in the error branch.
C2_ZeroPointsSucceeds ==
    (/\ Returned
     /\ args.points = IntArg(0)
     /\ Parses(args.days))
    => /\ response.success
       /\ response.data = <<>>
       /\ response.statistics.high_heat_zones = 0
       /\ response.statistics.medium_heat_zones = 0
       /\ response.statistics.low_heat_zones = 0

\* C3: a request whose points or days is negative ends in the failure result,
\* never in success=true.
C3_NegativeParameterFails ==
    (/\ Returned
     /\ Parses(args.points) /\ Parses(args.days)
     /\ \/ ArgValue(args.points, DefaultPoints) < 0
        \/ ArgValue(args.days, DefaultDays) < 0)
    => ~response.success

\* C4: every returned observation has zone in {0,1,2}, fixed by its own
\* temperature: >= 40 gives 0, 34 <= t < 40 gives 1, < 34 gives 2.
C4_ZoneByTemperature ==
    Succeeded =>
        \A i \in 1..Len(response.data) :
            LET o == response.data[i]
            IN  /\ o.zone \in {0, 1, 2}
                /\ o.lst >= 4000 => o.zone = 0
                /\ (o.lst >= 3400 /\ o.lst < 4000) => o.zone = 1
                /\ o.lst < 3400 => o.zone = 2

\* C4 witness: a response holding 40.00 in zone 0, 34.00 in zone 1 and a
\* temperature below 34 in zone 2.
C4_Witness ==
    /\ Succeeded
    /\ \E i, j, k \in 1..Len(response.data) :
         /\ response.data[i].lst = 4000 /\ response.data[i].zone = 0
         /\ response.data[j].lst = 3400 /\ response.data[j].zone = 1
         /\ response.data[k].lst = 3399 /\ response.data[k].zone = 2

\* C5: in every successful result the three zone counts add up to points,
\* which is the length of data.
C5_ZoneCountsSumToPoints ==
    Succeeded =>
        LET st == response.statistics
            total == st.high_heat_zones + st.medium_heat_zones + st.low_heat_zones
        IN  /\ total = points
            /\ total = Len(response.data)

\* C5 witness: a successful result with observations in all three zones.
C5_Witness ==
    /\ Succeeded
    /\ response.statistics.high_heat_zones >= 1
    /\ response.statistics.medium_heat_zones >= 1
    /\ response.statistics.low_heat_zones >= 1

\* C6: every returned observation carries the recommendation of the decision
\* table: zone 0 and ndvi < 0.3 urgent greening, zone 0 otherwise
\* ventilation/water features, zone 1 and ndvi < 0.4 increase vegetation,
\* zone 1 otherwise maintain and monitor, zone 2 generic maintenance.
C6_RecommendationTable ==
    Succeeded =>
        \A i \in 1..Len(response.data) :
            LET o == response.data[i]
            IN  /\ (o.zone = 0 /\ o.ndvi < 300) =>
                     o.recommendation = "Plant more trees and create green spaces urgently"
                /\ (o.zone = 0 /\ o.ndvi >= 300) =>
                     o.recommendation = "Improve ventilation and add water features"
                /\ (o.zone = 1 /\ o.ndvi < 400) =>
                     o.recommendation = "Increase vegetation cover and add shade structures"
                /\ (o.zone = 1 /\ o.ndvi >= 400) =>
                     o.recommendation = "Maintain current green cover and monitor temperature"
                /\ o.zone = 2 =>
                     o.recommendation = "Maintain existing vegetation and urban planning"

\* C6 witness: a response with a zone-0 observation at ndvi >= 0.3, a zone-1
\* observation with 0.3 <= ndvi < 0.4 and a zone-2 observation.
C6_Witness ==
    /\ Succeeded
    /\ \E i, j, k \in 1..Len(response.data) :
         /\ response.data[i].zone = 0 /\ response.data[i].ndvi >= 300
         /\ response.data[j].zone = 1 /\ response.data[j].ndvi >= 300
                                      /\ response.data[j].ndvi < 400
         /\ response.data[k].zone = 2

\* the sum of the returned uhi_intensity values, in hundredths
IntensitySum == SeqSum([i \in 1..Len(response.data) |-> response.data[i].uhi_intensity])

\* C7 as claimed: for points > 0 the returned uhi_intensity values sum to zero
\* (any sum other than 0 is at least 0.01, far above floating-point error).
C7_IntensitySumIsZero ==
    (Succeeded /\ points > 0) => IntensitySum = 0

\* C7 as amended: the returned uhi_intensity values sum to at most
\* 0.005 * points in absolute value, each being rounded to 2 decimals.
C7_IntensitySumWithinRounding ==
    (Succeeded /\ points > 0) => 2 * Abs(IntensitySum) <= points

\* C7 witness: a successful result whose intensities do not sum to zero.
C7_Witness ==
    Succeeded /\ points > 0 /\ IntensitySum # 0

\* the single observation of the C8 scenario is returned
C8_Scenario ==
    /\ Succeeded
    /\ points = 1
    /\ response.data[1].lst = 4500
    /\ response.data[1].ndvi = 100

\* C8 as claimed: points = 1 with temperature 45.0 and ndvi 0.1 gives zone 0,
\* vegetation "Barren/Sparse", color "#ef4444", severity "High", the urgent
\* greening recommendation and intensity 0.0.
C8_ExampleAsClaimed ==
    C8_Scenario =>
        /\ response.data[1].zone = 0
        /\ response.data[1].vegetation = "Barren/Sparse"
        /\ response.data[1].color = "#ef4444"
        /\ response.data[1].severity = "High"
        /\ response.data[1].recommendation = "Plant more trees and create green spaces urgently"
        /\ response.data[1].uhi_intensity = 0

\* C8 as amended: the same scenario gives vegetation "Water/Built-up"
\* (0.1 < 0.2), the other five fields as claimed.
C8_ExampleAmended ==
    C8_Scenario =>
        /\ response.data[1].zone = 0
        /\ response.data[1].vegetation = "Water/Built-up"
        /\ response.data[1].color = "#ef4444"
        /\ response.data[1].severity = "High"
        /\ response.data[1].recommendation = "Plant more trees and create green spaces urgently"
        /\ response.data[1].uhi_intensity = 0

\* C8 witness: the scenario occurs.
C8_Witness ==
    C8_Scenario /\ response.statistics.total_points = 1

\* C9: in every successful result min_lst <= avg_lst <= max_lst.
C9_MinAvgMaxOrdered ==
    Succeeded =>
        LET t == response.statistics.temperature
        IN  t.min_lst <= t.avg_lst /\ t.avg_lst <= t.max_lst

\* C10: in every successful result for days >= 0, end_date equals image_date
\* and start_date is exactly days calendar days before end_date.
C10_DateRangeConsistent ==
    (Succeeded /\ days >= 0) =>
        LET dr == response.statistics.date_range
        IN  /\ dr.end_date = dr.image_date
            /\ DateOrdinal(dr.end_date) - DateOrdinal(dr.start_date) = days

====
